---------------------------- MODULE Spec2Model ----------------------------
(***************************************************************************)
(* A model of bonfire_utils.py: the paginated fetch of project records     *)
(* (get_all_projects, get_open_projects), the close-date window filter of  *)
(* get_open_projects, the datetime normaliser parse_api_datetime and the   *)
(* row flattener / table assembly of convert_to_df.                        *)
(*                                                                         *)
(* Python values are tagged records (field t), so that values of different *)
(* Python types can be compared.  A Python str is a sequence of lexical    *)
(* tokens: a run of literal characters [c |-> "..."], the ISO text of a    *)
(* civil date-time [civil |-> w], the text of a UTC offset [off |-> k], or *)
(* the text strftime produces [fmt |-> w].  Time is counted in hours; hour *)
(* 0 of the UTC time line is 2025-10-31T00:00Z and civil hour 0 is         *)
(* 2025-10-31T00:00 on the wall clock.                                     *)
(***************************************************************************)
EXTENDS Integers, Sequences, FiniteSets, TLC

VARIABLES
    pc,            \* "idle", "loop" (inside the while True), "returned", "raised"
    fn,            \* the function that was called
    args,          \* its arguments
    api,           \* the remote collection served by the projects endpoint
    page,          \* local variable page of the pager loop
    all_projects,  \* local variable all_projects of the pager loop
    requests,      \* every GET issued so far, with the response it received
    now,           \* the value datetime.now(EASTERN) read at line 107, as a UTC hour
    ret            \* the outcome: a returned value or a raised exception

vars == <<pc, fn, args, api, page, all_projects, requests, now, ret>>

---------------------------------------------------------------------------
(* Python values *)

None == [t |-> "none"]

NaN == [t |-> "nan"]

Str(toks) == [t |-> "str", s |-> toks]

PyInt(i) == [t |-> "int", i |-> i]

Dict(d) == [t |-> "dict", d |-> d]

List(l) == [t |-> "list", l |-> l]

TokZ == [c |-> "Z"]

Lit(c) == Str(<<[c |-> c]>>)

\* Truth value of a Python object: None, "", [] and {} are false.
Truthy(v) ==
    CASE v.t = "none" -> FALSE
      [] v.t = "str"  -> Len(v.s) > 0
      [] v.t = "list" -> Len(v.l) > 0
      [] v.t = "dict" -> DOMAIN v.d # {}
      [] OTHER        -> TRUE

\* dict.get(key): the value, or None when the key is absent.
Get(d, key) == IF key \in DOMAIN d THEN d[key] ELSE None

Return(v) == [kind |-> "return", value |-> v]

Raise(e) == [kind |-> "raise", exc |-> e]

RECURSIVE SeqMax(_)
SeqMax(S) ==
    LET x == CHOOSE y \in S : TRUE
    IN  IF S = {x} THEN x
        ELSE LET m == SeqMax(S \ {x}) IN IF x > m THEN x ELSE m

---------------------------------------------------------------------------
(* Time: timedelta, ZoneInfo("America/New_York"), datetime *)

HoursPerDay == 24

\* UTC offsets of the two halves of the Eastern year.
EDT == -4

EST == -5

\* The UTC hour at which daylight time ends: 2025-11-02T06:00Z.
DstEnd == 54

\* utcoffset of the Eastern zone at a UTC instant.
EasternOffsetAt(u) == IF u < DstEnd THEN EDT ELSE EST

\* utcoffset of the Eastern zone for a wall-clock reading.  A reading that
\* occurs twice (the repeated hour after DstEnd) is told apart by fold.
EasternOffset(wall, fold) ==
    IF wall - EDT < DstEnd
    THEN IF wall - EST >= DstEnd /\ fold = 1 THEN EST ELSE EDT
    ELSE EST

UtcOffset(dt) ==
    CASE dt.tz = "eastern" -> EasternOffset(dt.wall, dt.fold)
      [] OTHER             -> dt.off

\* The UTC instant an aware datetime denotes.
Instant(dt) == dt.wall - UtcOffset(dt)

\* dt.astimezone(EASTERN) of an aware datetime.
AsEastern(dt) ==
    LET u == Instant(dt)
        o == EasternOffsetAt(u)
        w == u + o
    IN  [wall |-> w,
         fold |-> IF o = EST /\ w - EDT < DstEnd THEN 1 ELSE 0,
         tz   |-> "eastern",
         off  |-> 0]

\* datetime.now(EASTERN) when the clock reads UTC hour u.
NowEastern(u) == AsEastern([wall |-> u, fold |-> 0, tz |-> "fixed", off |-> 0])

\* dt + timedelta(days=d): wall-clock arithmetic, tzinfo kept, fold cleared.
PlusDays(dt, d) == [dt EXCEPT !.wall = dt.wall + HoursPerDay * d, !.fold = 0]

\* a > b on datetimes: "TypeError" when exactly one is naive; datetimes that
\* share their tzinfo object are compared by wall-clock reading, ignoring
\* fold; otherwise the instants are compared.
DatetimeGt(a, b) ==
    CASE (a.tz = "naive") # (b.tz = "naive") -> [ok |-> FALSE, v |-> FALSE]
      [] a.tz = "naive" /\ b.tz = "naive"    -> [ok |-> TRUE, v |-> a.wall > b.wall]
      [] a.tz = "eastern" /\ b.tz = "eastern" -> [ok |-> TRUE, v |-> a.wall > b.wall]
      [] OTHER -> [ok |-> TRUE, v |-> Instant(a) > Instant(b)]

\* str.endswith("Z")
EndsWithZ(toks) == Len(toks) > 0 /\ toks[Len(toks)] = TokZ

\* date_string[:-1] + "+00:00"
ReplaceZ(toks) == SubSeq(toks, 1, Len(toks) - 1) \o <<[off |-> 0]>>

\* datetime.fromisoformat: a civil date-time, optionally followed by one UTC
\* offset; anything else is a ValueError (ok = FALSE).
FromIsoFormat(toks) ==
    LET bad == [ok |-> FALSE, dt |-> [wall |-> 0, fold |-> 0, tz |-> "naive", off |-> 0]]
    IN  CASE Len(toks) = 1 /\ DOMAIN toks[1] = {"civil"} ->
               [ok |-> TRUE,
                dt |-> [wall |-> toks[1].civil, fold |-> 0, tz |-> "naive", off |-> 0]]
          [] Len(toks) = 2 /\ DOMAIN toks[1] = {"civil"} /\ DOMAIN toks[2] = {"off"} ->
               [ok |-> TRUE,
                dt |-> [wall |-> toks[1].civil, fold |-> 0, tz |-> "fixed",
                        off |-> toks[2].off]]
          [] OTHER -> bad

\* dt.strftime("%b %d, %Y %I:%M %p %Z") of an Eastern datetime.
Strftime(dt) ==
    <<[fmt |-> dt.wall], [c |-> IF UtcOffset(dt) = EDT THEN " EDT" ELSE " EST"]>>

parse_api_datetime(date_string) ==
    IF ~Truthy(date_string) THEN None
    ELSE LET s0 == date_string.s
             s1 == IF EndsWithZ(s0) THEN ReplaceZ(s0) ELSE s0
             p  == FromIsoFormat(s1)
             dt_eastern ==
                 IF p.dt.tz # "naive" THEN AsEastern(p.dt)
                 ELSE AsEastern([p.dt EXCEPT !.tz = "fixed", !.off = 0])
         IN  IF p.ok THEN Str(Strftime(dt_eastern))
             ELSE Str(s1)    \* except ValueError: date_string was rebound above

---------------------------------------------------------------------------
(* The projects endpoint and the pager loop *)

\* limit = 100
Limit == 100

\* The most pages the remote collection spans.
MaxPages == 2

\* str.lower() on the literals that occur.
LowerLit(c) ==
    CASE c = "Open"   -> "open"
      [] c = "OPEN"   -> "open"
      [] c = "Closed" -> "closed"
      [] c = "Public" -> "public"
      [] c = "PUBLIC" -> "public"
      [] c = "Private" -> "private"
      [] c = "Z"      -> "z"
      [] OTHER        -> c

Lower(v) ==
    Str([i \in DOMAIN v.s |->
            IF DOMAIN v.s[i] = {"c"} THEN [c |-> LowerLit(v.s[i].c)] ELSE v.s[i]])

\* An ISO string "<civil>Z" for UTC hour u, and "<civil><offset>".
IsoZ(u) == Str(<<[civil |-> u], TokZ>>)

IsoOff(w, k) == Str(<<[civil |-> w], [off |-> k]>>)

Proj(status, visibility) == [status |-> Lit(status), visibility |-> Lit(visibility)]

WithClose(p, d) == [k \in DOMAIN p \cup {"dateClosed"} |->
                       IF k = "dateClosed" THEN d ELSE p[k]]

\* The kinds of project record the endpoint serves.
PairKinds ==
    {WithClose(Proj("Open", "Public"), IsoZ(u)) : u \in {53, 54}} \cup
    {WithClose(Proj("OPEN", "PUBLIC"), IsoOff(51, EST)),
     WithClose(Proj("Closed", "Public"), IsoZ(55)),
     Proj("open", "public"),
     WithClose(Proj("Open", "Public"), Lit("TBD"))}

ApiKinds ==
    PairKinds \cup
    {WithClose(Proj("Open", "Public"), IsoZ(u)) : u \in {52, 55}} \cup
    {WithClose(Proj("open", "Private"), IsoZ(55)),
     WithClose(Proj("Open", "Public"), Str(<<>>)),
     WithClose(Proj("Open", "Public"), Str(<<[civil |-> 55]>>))}

\* The remote collection: a periodic sequence of record kinds.
ApiCollections ==
    {<<a>> : a \in ApiKinds} \cup {<<a, b>> : a, b \in PairKinds}

\* The numbers of records a page can hold.
PageSizes == {0, 2, 50, Limit - 1, Limit}

\* The clock readings (UTC hours) and arguments tried.
NowSet == {5, 6, 29}

DaysSet == {1, 2}

StatusCodes == {200, 404, 500}

\* response.json() of page p when it holds n records: every record carries
\* its own id.
PageData(coll, p, n) ==
    [i \in 1..n |->
        LET k == coll[((i - 1) % Len(coll)) + 1]
        IN  [f \in DOMAIN k \cup {"id"} |->
                IF f = "id" THEN [t |-> "id", page |-> p, idx |-> i] ELSE k[f]]]

RaiseForServerErrorOnly(code) == code >= 500 /\ code < 600

\* response.raise_for_status(): HTTPError for a 4xx or 5xx status.
RaiseForStatus(code) == code >= 400 /\ code < 600

\* One project of the filter loop: "skip", "keep", or the exception raised.
WindowStep(project, cutoff) ==
    IF Lower(project["status"]) # Lit("open") THEN "skip"
    ELSE IF Lower(project["visibility"]) # Lit("public") THEN "skip"
    ELSE LET date_closed == Get(project, "dateClosed")
         IN  IF ~Truthy(date_closed) THEN "skip"
             ELSE LET s1 == IF EndsWithZ(date_closed.s) THEN ReplaceZ(date_closed.s)
                            ELSE date_closed.s
                      p  == FromIsoFormat(s1)
                      close_date == IF p.dt.tz # "naive" THEN AsEastern(p.dt) ELSE p.dt
                      gt == DatetimeGt(close_date, cutoff)
                  IN  IF ~p.ok THEN "ValueError"
                      ELSE IF ~gt.ok THEN "TypeError"
                      ELSE IF gt.v THEN "keep" ELSE "skip"

\* The for loop of lines 111-125: the first project that raises ends the
\* call; otherwise the kept projects are appended in order.
WindowLoop(projects, cutoff) ==
    LET Keep(project) == WindowStep(project, cutoff) = "keep"
        raising == {i \in DOMAIN projects :
                       WindowStep(projects[i], cutoff) \in {"ValueError", "TypeError"}}
        first   == CHOOSE i \in raising : \A j \in raising : i <= j
    IN  IF raising # {} THEN Raise(WindowStep(projects[first], cutoff))
        ELSE Return(SelectSeq(projects, Keep))

\* Lines 106-127: the cutoff and the filter over all_projects.
WindowFilter(projects, clock, time_delta_days) ==
    WindowLoop(projects, PlusDays(NowEastern(clock), time_delta_days))

---------------------------------------------------------------------------
(* convert_to_df: the row flattener and the table *)

\* The longest list of projects handed to convert_to_df.
MaxLen == 2

Range(f) == {f[i] : i \in DOMAIN f}

\* A Python dict with its insertion order: d[k] = v.
EmptyDict == [keys |-> <<>>, val |-> <<>>]

Put(d, k, v) ==
    IF k \in Range(d.keys)
    THEN [d EXCEPT !.val = [x \in DOMAIN d.val |-> IF x = k THEN v ELSE d.val[x]]]
    ELSE [keys |-> Append(d.keys, k),
          val  |-> [x \in Range(d.keys) \cup {k} |-> IF x = k THEN v ELSE d.val[x]]]

\* Put that keeps the value already stored under k.
PutFirstWins(d, k, v) == IF k \in Range(d.keys) THEN d ELSE Put(d, k, v)

\* {cf["customField"]["name"]: cf["value"] for cf in entries}
RECURSIVE CustomFieldsFrom(_, _, _)
CustomFieldsFrom(entries, i, d) ==
    IF i > Len(entries) THEN d
    ELSE CustomFieldsFrom(entries, i + 1,
                          Put(d, entries[i].customField.name, entries[i].value))

RECURSIVE CustomFieldsFirstWins(_, _, _)
CustomFieldsFirstWins(entries, i, d) ==
    IF i > Len(entries) THEN d
    ELSE CustomFieldsFirstWins(entries, i + 1,
                          PutFirstWins(d, entries[i].customField.name, entries[i].value))

\* project.get("customFieldValues", [])
CustomEntries(project) ==
    IF "customFieldValues" \in DOMAIN project THEN project["customFieldValues"].l ELSE <<>>

CustomFieldsKeepFirst(project) == CustomFieldsFirstWins(CustomEntries(project), 1, EmptyDict)

CustomFields(project) == CustomFieldsFrom(CustomEntries(project), 1, EmptyDict)

\* None["id"]: subscripting the result of .get() when the sub-object is absent.
Subscriptable(v) == v.t = "dict"

\* v[key] of a dict; of anything else the subscript raises, see Flatten.
Subscript(v, key) == IF Subscriptable(v) THEN v.d[key] ELSE None

\* project.get(sub)[key] if project.get(sub) else None
Guarded(project, sub, key) ==
    IF Truthy(Get(project, sub)) THEN Subscript(Get(project, sub), key) ELSE None

\* The keys of the dict literal of lines 181-211, in order.
FixedKeys ==
    <<"bonfire_id", "organization_id", "department_id", "project_name",
      "reference_number", "project_description", "type", "open_date",
      "date_closed", "date_evaluated", "visibility", "owner_name", "owner_email",
      "status", "contact_name", "contact_email", "contact_phone", "date_modified">>

\* The value the dict literal gives a fixed key (organization and department
\* present).
FixedValue(project, k) ==
    CASE k = "bonfire_id"          -> Get(project, "id")
      [] k = "organization_id"     -> Subscript(Get(project, "organization"), "id")
      [] k = "department_id"       -> Subscript(Get(project, "department"), "id")
      [] k = "project_name"        -> Get(project, "name")
      [] k = "reference_number"    -> Get(project, "referenceNumber")
      [] k = "project_description" -> Get(project, "description")
      [] k = "type"                -> Get(project, "type")
      [] k = "open_date"           -> parse_api_datetime(Get(project, "dateOpen"))
      [] k = "date_closed"         -> parse_api_datetime(Get(project, "dateClosed"))
      [] k = "date_evaluated"      -> parse_api_datetime(Get(project, "dateEvaluated"))
      [] k = "visibility"          -> Get(project, "visibility")
      [] k = "owner_name"          -> Guarded(project, "owner", "name")
      [] k = "owner_email"         -> Guarded(project, "owner", "email")
      [] k = "status"              -> Get(project, "status")
      [] k = "contact_name"        -> Guarded(project, "contact", "name")
      [] k = "contact_email"       -> Guarded(project, "contact", "email")
      [] k = "contact_phone"       -> Guarded(project, "contact", "phone")
      [] k = "date_modified"       -> parse_api_datetime(Get(project, "dateModified"))

RECURSIVE PutAll(_, _, _, _)
PutAll(d, keys, val, i) ==
    IF i > Len(keys) THEN d
    ELSE PutAll(Put(d, keys[i], val[keys[i]]), keys, val, i + 1)

\* {**a, **b}: the keys of a in order, then b's, b's values winning.
Merge(a, b) == PutAll(a, b.keys, b.val, 1)

MergeFixedWins(a, b) == PutAll(b, a.keys, a.val, 1)

ItemFixedWins(fixed, custom_fields) == MergeFixedWins(fixed, custom_fields)

\* item = {<fixed keys>, **custom_fields}
Item(fixed, custom_fields) == Merge(fixed, custom_fields)

\* Which sub-objects the dict literal subscripts without a guard.
UnguardedNone == {}

Unguarded == {"organization", "department"}

\* One iteration of the loop of lines 175-212.
Flatten(project) ==
    LET custom_fields == CustomFields(project)
        fixed == [keys |-> FixedKeys,
                  val  |-> [k \in Range(FixedKeys) |-> FixedValue(project, k)]]
    IN  IF \E sub \in Unguarded : ~Subscriptable(Get(project, sub))
        THEN [ok |-> FALSE, exc |-> "TypeError", row |-> EmptyDict]
        ELSE [ok |-> TRUE, exc |-> "", row |-> Item(fixed, custom_fields)]

RECURSIVE ColumnsOf(_, _, _)
ColumnsOf(rows, i, cols) ==
    IF i > Len(rows) THEN cols
    ELSE ColumnsOf(rows, i + 1,
                   cols \o SelectSeq(rows[i].keys, LAMBDA k : k \notin Range(cols)))

\* The columns of the first row only.
FirstRowColumns(rows) == IF Len(rows) = 0 THEN <<>> ELSE rows[1].keys

\* The columns pd.DataFrame gives a list of dicts: every key, in order of
\* first appearance.
FrameColumns(rows) == ColumnsOf(rows, 1, <<>>)

\* pd.DataFrame(df_list): a cell a row has no key for is NaN.
DataFrame(rows) ==
    LET cols == FrameColumns(rows)
    IN  [t |-> "df", columns |-> cols,
         rows |-> [i \in DOMAIN rows |->
                     [c \in Range(cols) |->
                         IF c \in Range(rows[i].keys) THEN rows[i].val[c] ELSE NaN]]]

\* df[columns]: KeyError when a label is not a column.
Select(df, columns) ==
    IF \E i \in DOMAIN columns : columns[i] \notin Range(df.columns)
    THEN Raise("KeyError")
    ELSE Return([t |-> "df", columns |-> columns,
                 rows |-> [i \in DOMAIN df.rows |->
                             [c \in Range(columns) |-> df.rows[i][c]]]])

convert_to_df(projects, columns) ==
    LET flat    == [i \in DOMAIN projects |-> Flatten(projects[i])]
        failing == {i \in DOMAIN projects : ~flat[i].ok}
        first   == CHOOSE i \in failing : \A j \in failing : i <= j
        df      == DataFrame([i \in DOMAIN projects |-> flat[i].row])
    IN  IF failing # {} THEN Raise(flat[first].exc)
        ELSE IF Truthy(columns) THEN Select(df, columns.l)
        ELSE Return(df)

With(p, key, v) == [k \in DOMAIN p \cup {key} |-> IF k = key THEN v ELSE p[k]]

Without(p, key) == [k \in DOMAIN p \ {key} |-> p[k]]

Entry(name, value) == [customField |-> [name |-> name], value |-> value]

BaseProject ==
    [id |-> PyInt(1),
     organization |-> Dict([id |-> PyInt(10)]),
     department |-> Dict([id |-> PyInt(20)]),
     name |-> Lit("Bridge repair"),
     referenceNumber |-> Lit("RFP-1"),
     description |-> Lit("Repair of the bridge"),
     type |-> Lit("RFP"),
     dateOpen |-> IsoZ(53),
     dateClosed |-> Str(<<[civil |-> 54]>>),
     dateModified |-> Lit("TBD"),
     visibility |-> Lit("Public"),
     status |-> Lit("Open"),
     owner |-> Dict([name |-> Lit("Ann"), email |-> Lit("ann@city")]),
     contact |-> Dict([name |-> Lit("Bob"), email |-> Lit("bob@city"),
                       phone |-> Lit("555-0100")])]

\* The project records handed to convert_to_df.
DfProjects ==
    {BaseProject,
     Without(BaseProject, "owner"),
     With(BaseProject, "contact", None),
     Without(BaseProject, "organization"),
     With(BaseProject, "department", None),
     With(BaseProject, "customFieldValues", List(<<Entry("Budget", Lit("100"))>>)),
     With(BaseProject, "customFieldValues",
          List(<<Entry("Region", Lit("East")), Entry("Region", Lit("West"))>>)),
     With(BaseProject, "customFieldValues",
          List(<<Entry("status", Lit("Custom")), Entry("Region", Lit("North")),
                 Entry("bonfire_id", Lit("B-7"))>>)),
     With(Without(BaseProject, "owner"), "customFieldValues",
          List(<<Entry("owner_name", Lit("Zed"))>>))}

ProjectLists == UNION {[1..n -> DfProjects] : n \in 0..MaxLen}

\* The columns arguments tried.
ColumnsArgs ==
    {None, List(<<>>), List(<<"status">>), List(<<"Budget", "bonfire_id">>),
     List(<<"nonexistent_key">>), List(<<"project_name", "Region", "project_name">>)}

---------------------------------------------------------------------------
(* Actions *)

NoRet == [kind |-> "none"]

Init ==
    /\ pc = "idle"
    /\ fn = "none"
    /\ args = [none |-> TRUE]
    /\ api = <<>>
    /\ page = 0
    /\ all_projects = <<>>
    /\ requests = <<>>
    /\ now = 0
    /\ ret = NoRet

\* get_all_projects(api_key, projects_url) up to the while True.
CallGetAllProjects ==
    /\ pc = "idle"
    /\ \E coll \in {<<Proj("Open", "Public")>>, <<Proj("Closed", "Private")>>} :
           api' = coll
    /\ pc' = "loop"
    /\ fn' = "get_all_projects"
    /\ page' = 1
    /\ all_projects' = <<>>
    /\ UNCHANGED <<args, requests, now, ret>>

\* get_open_projects(api_key, projects_url, time_delta_days) up to the while True.
CallGetOpenProjects ==
    /\ pc = "idle"
    /\ \E coll \in ApiCollections : api' = coll
    /\ \E d \in DaysSet : args' = [time_delta_days |-> d]
    /\ pc' = "loop"
    /\ fn' = "get_open_projects"
    /\ page' = 1
    /\ all_projects' = <<>>
    /\ UNCHANGED <<requests, now, ret>>

\* all_projects.extend(data)
Extend(acc, data) == acc \o data

ShortPageOffByOne(data) == Len(data) <= Limit

\* if len(data) < limit: break
ShortPage(data) == Len(data) < Limit

\* One iteration of the while True loop, and, when the loop ends, the rest
\* of the function.
FetchPage ==
    /\ pc = "loop"
    /\ \E code \in StatusCodes, clock \in NowSet,
          n \in {m \in PageSizes : page < MaxPages \/ m < Limit} :
         LET data    == IF code = 200 THEN PageData(api, page, n) ELSE <<>>
             failed  == RaiseForStatus(code)
             empty   == Len(data) = 0
             acc     == IF empty THEN all_projects ELSE Extend(all_projects, data)
             break   == empty \/ ShortPage(data)
             opening == fn = "get_open_projects"
         IN  /\ code # 200 => n = 0
             /\ requests' = Append(requests,
                               [limit |-> Limit, page |-> page, code |-> code, n |-> Len(data)])
             /\ IF failed
                THEN /\ pc' = "raised"
                     /\ ret' = Raise("HTTPError")
                     /\ UNCHANGED <<page, all_projects, now>>
                ELSE /\ all_projects' = acc
                     /\ page' = IF break THEN page ELSE page + 1
                     /\ now' = IF break /\ opening THEN clock ELSE now
                     /\ ret' = CASE ~break  -> NoRet
                                  [] opening -> WindowFilter(acc, clock, args.time_delta_days)
                                  [] OTHER   -> Return(acc)
                     /\ pc' = CASE ~break -> "loop"
                                 [] ret'.kind = "raise" -> "raised"
                                 [] OTHER -> "returned"
    /\ UNCHANGED <<fn, args, api>>

\* The date strings handed to parse_api_datetime.
DateStrings ==
    {None, Str(<<>>), Lit("TBD"), Str(<<[c |-> "TBD"], TokZ>>), Str(<<TokZ>>),
     Str(<<[civil |-> 55], [off |-> 0], TokZ>>)} \cup
    {IsoZ(u) : u \in {53, 54}} \cup
    {Str(<<[civil |-> u]>>) : u \in {53, 54}} \cup
    {IsoOff(49, EDT), IsoOff(49, EST)}

ParseApiDatetime ==
    /\ pc = "idle"
    /\ \E d \in DateStrings :
         /\ args' = [date_string |-> d]
         /\ ret' = Return(parse_api_datetime(d))
    /\ pc' = "returned"
    /\ fn' = "parse_api_datetime"
    /\ UNCHANGED <<api, page, all_projects, requests, now>>

ConvertToDf ==
    /\ pc = "idle"
    /\ \E projects \in ProjectLists, columns \in ColumnsArgs :
         /\ args' = [projects |-> projects, columns |-> columns]
         /\ ret' = convert_to_df(projects, columns)
         /\ pc' = IF ret'.kind = "raise" THEN "raised" ELSE "returned"
    /\ fn' = "convert_to_df"
    /\ UNCHANGED <<api, page, all_projects, requests, now>>

Next ==
    \/ ConvertToDf
    \/ CallGetAllProjects
    \/ CallGetOpenProjects
    \/ FetchPage
    \/ ParseApiDatetime

Spec == Init /\ [][Next]_vars

---------------------------------------------------------------------------
(* Properties *)

Pager == fn \in {"get_all_projects", "get_open_projects"}

Ended == pc \in {"returned", "raised"}

\* The records of the first k pages fetched, in page order.
RECURSIVE FetchedPages(_)
FetchedPages(k) ==
    IF k = 0 THEN <<>>
    ELSE FetchedPages(k - 1) \o PageData(api, requests[k].page, requests[k].n)

\* C1: the pager requests pages 1, 2, 3, ... with limit=100, issues no
\* request after the first page of zero or fewer than 100 records, stops at
\* that page, and its result is the concatenation of the fetched pages in
\* page order.
C1_PagerConcatenation ==
    Pager =>
      /\ \A k \in DOMAIN requests : requests[k].page = k /\ requests[k].limit = 100
      /\ \A k \in DOMAIN requests :
            k < Len(requests) => requests[k].code = 200 /\ requests[k].n >= 100
      /\ pc = "loop" =>
            /\ page = Len(requests) + 1
            /\ \A k \in DOMAIN requests : requests[k].n >= 100
            /\ all_projects = FetchedPages(Len(requests))
      /\ (Ended /\ requests[Len(requests)].code = 200) =>
            /\ requests[Len(requests)].n < 100
            /\ all_projects = FetchedPages(Len(requests))
      /\ (fn = "get_all_projects" /\ pc = "returned") =>
            ret = Return(FetchedPages(Len(requests)))

\* C1 witness: pages of 100 and 50 records give 2 requests and 150 records.
C1_Witness ==
    /\ fn = "get_all_projects" /\ pc = "returned"
    /\ Len(requests) = 2 /\ requests[1].n = 100 /\ requests[2].n = 50
    /\ Len(ret.value) = 150
    /\ ret.value[101].id = [t |-> "id", page |-> 2, idx |-> 1]

IsOpen(project) == project["status"] \in {Lit("open"), Lit("Open"), Lit("OPEN")}

IsPublic(project) ==
    project["visibility"] \in {Lit("public"), Lit("Public"), Lit("PUBLIC")}

\* The close-date strings that denote an instant: a civil time followed by
\* Z or by a UTC offset.
Comparable(project) ==
    /\ "dateClosed" \in DOMAIN project
    /\ project["dateClosed"].t = "str"
    /\ LET toks == project["dateClosed"].s
       IN  /\ Len(toks) = 2
           /\ DOMAIN toks[1] = {"civil"}
           /\ toks[2] = TokZ \/ DOMAIN toks[2] = {"off"}

CloseInstant(project) ==
    LET toks == project["dateClosed"].s
    IN  IF toks[2] = TokZ THEN toks[1].civil ELSE toks[1].civil - toks[2].off

\* The instant of now + time_delta_days days on the Eastern wall clock.
CutoffInstant == Instant(PlusDays(NowEastern(now), args.time_delta_days))

InWindow(project) ==
    /\ IsOpen(project)
    /\ IsPublic(project)
    /\ Comparable(project)
    /\ CloseInstant(project) > CutoffInstant

\* C3: what get_open_projects returns is exactly the subsequence, in
\* order, of the fetched records that are open, public and whose close-date
\* instant is strictly later than now + time_delta_days days; the fetched
\* records are left as fetched.
C3_WindowFilterByInstant ==
    (fn = "get_open_projects" /\ pc = "returned") =>
      /\ ret = Return(SelectSeq(all_projects, InWindow))
      /\ all_projects = FetchedPages(Len(requests))

\* C4: an open, public record whose close date is absent, empty,
\* unparseable or without a UTC offset is left out of the result and never
\* makes get_open_projects raise: once every page was fetched the call
\* returns.
C4_NonComparableExcluded ==
    (fn = "get_open_projects" /\ Ended /\ requests[Len(requests)].code = 200) =>
      /\ pc = "returned"
      /\ \A i \in DOMAIN ret.value : Comparable(ret.value[i])

\* C5: with a columns sequence supplied, convert_to_df either returns a
\* table whose columns are exactly that sequence, or raises because a
\* requested column is no key of any row.
C5_ProjectionExact ==
    (fn = "convert_to_df" /\ args.columns # None) =>
      /\ pc = "returned" => ret.value.columns = args.columns.l
      /\ (pc = "raised" /\ ret = Raise("KeyError")) =>
            \E c \in Range(args.columns.l) :
              \A i \in DOMAIN args.projects :
                c \notin Range(Flatten(args.projects[i]).row.keys)

\* The positions of the custom-field entries of a project named name.
EntriesNamed(project, name) ==
    {j \in DOMAIN CustomEntries(project) :
        CustomEntries(project)[j].customField.name = name}

\* C6: under a custom-field name that several entries of a record share,
\* the row holds the value of the last such entry.
C6_LastWriteWins ==
    (fn = "convert_to_df" /\ pc = "returned") =>
      \A i \in DOMAIN args.projects :
        \A j \in DOMAIN CustomEntries(args.projects[i]) :
          LET es   == CustomEntries(args.projects[i])
              name == es[j].customField.name
          IN  name \in Range(ret.value.columns) =>
                ret.value.rows[i][name] =
                  es[SeqMax(EntriesNamed(args.projects[i], name))].value

\* C6 witness: Region=East then Region=West gives Region = West.
C6_Witness ==
    /\ fn = "convert_to_df" /\ pc = "returned" /\ args.columns = None
    /\ Len(args.projects) = 1
    /\ CustomEntries(args.projects[1]) =
         <<Entry("Region", Lit("East")), Entry("Region", Lit("West"))>>
    /\ ret.value.rows[1]["Region"] = Lit("West")

IsNull(v) == v \in {None, NaN}

\* C7: without a columns argument the table's columns are the union of the
\* keys of the flattened rows, there is one row per record in input order,
\* and a row is null in every column its record has no key for.
C7_TableIsUnionOfRowKeys ==
    (fn = "convert_to_df" /\ pc = "returned" /\ args.columns = None) =>
      LET rows == [i \in DOMAIN args.projects |-> Flatten(args.projects[i]).row]
          df   == ret.value
      IN  /\ Range(df.columns) = UNION {Range(rows[i].keys) : i \in DOMAIN rows}
          /\ Cardinality(Range(df.columns)) = Len(df.columns)
          /\ Len(df.rows) = Len(args.projects)
          /\ \A i \in DOMAIN rows :
                /\ DOMAIN df.rows[i] = Range(df.columns)
                /\ \A c \in Range(df.columns) :
                      IF c \in Range(rows[i].keys)
                      THEN df.rows[i][c] = rows[i].val[c]
                      ELSE IsNull(df.rows[i][c])

\* C7 witness: of two records only the second has custom field Budget; the
\* table has a Budget column and the first row is null there.
C7_Witness ==
    /\ fn = "convert_to_df" /\ pc = "returned" /\ args.columns = None
    /\ Len(args.projects) = 2
    /\ EntriesNamed(args.projects[1], "Budget") = {}
    /\ EntriesNamed(args.projects[2], "Budget") # {}
    /\ "Budget" \in Range(ret.value.columns)
    /\ IsNull(ret.value.rows[1]["Budget"])
    /\ ret.value.rows[2]["Budget"] = Lit("100")

Absent(project, sub) == Get(project, sub) = None

IsIso(toks) ==
    \/ Len(toks) = 1 /\ DOMAIN toks[1] = {"civil"}
    \/ /\ Len(toks) = 2
       /\ DOMAIN toks[1] = {"civil"}
       /\ toks[2] = TokZ \/ DOMAIN toks[2] = {"off"}

\* C9: parse_api_datetime never raises; it returns null for null and for
\* the empty string, and returns a non-empty string that is not ISO-8601
\* unchanged.
C9_UnparseableReturnedUnchanged ==
    fn = "parse_api_datetime" =>
      /\ pc = "returned"
      /\ ~Truthy(args.date_string) => ret = Return(None)
      /\ (Truthy(args.date_string) /\ ~IsIso(args.date_string.s)) =>
            ret = Return(args.date_string)

\* C10: a custom field named like a fixed output key replaces the value
\* derived from the record's fixed field; every other fixed key holds the
\* value derived from the fixed field.
C10_CustomOverridesFixed ==
    (fn = "convert_to_df" /\ pc = "returned" /\ args.columns = None) =>
      \A i \in DOMAIN args.projects :
        \A k \in Range(FixedKeys) :
          LET project == args.projects[i]
              named   == EntriesNamed(project, k)
          IN  IF named # {}
              THEN ret.value.rows[i][k] = CustomEntries(project)[SeqMax(named)].value
              ELSE ret.value.rows[i][k] = FixedValue(project, k)

\* C10 witness: custom fields status and bonfire_id replace the fixed
\* values, project_name keeps the record's name.
C10_Witness ==
    /\ fn = "convert_to_df" /\ pc = "returned" /\ args.columns = None
    /\ Len(args.projects) = 1
    /\ args.projects[1]["status"] = Lit("Open")
    /\ ret.value.rows[1]["status"] = Lit("Custom")
    /\ ret.value.rows[1]["bonfire_id"] = Lit("B-7")
    /\ ret.value.rows[1]["project_name"] = Lit("Bridge repair")
    /\ Cardinality(Range(FixedKeys)) = 18

=============================================================================
